---- MODULE Spec2Model ----
(***************************************************************************)
(* Model of bsw/src/communication/Endianess.h: the swap_bytes template     *)
(* specializations, the to_network / from_network wrappers and the         *)
(* preprocessor configuration of BYTE_ORDER that selects their body.       *)
(*                                                                         *)
(* A value of a type T is represented by its bit pattern: a sequence of    *)
(* sizeof(T) bytes (0..255) in order of significance, element 1 being the  *)
(* least significant byte.  Signed types are two's complement.  A float is *)
(* represented by the bit pattern of its IEEE-754 encoding; an object of   *)
(* float type is its storage bytes and copying it keeps them.              *)
(***************************************************************************)
EXTENDS Integers, Sequences, FiniteSets, TLC

VARIABLES
    T,      \* the type the conversion is requested for
    x,      \* the bit pattern of the value passed in
    cfg,    \* cfg[h]: platform and toolchain facts of the build of host h
    build,  \* build[h]: outcome of building the translation unit on host h
    once,   \* swap_bytes<T, sizeof(T)>(x)
    twice,  \* swap_bytes<T, sizeof(T)>(once)
    out,    \* to_network(x) on host "tx"
    back,   \* from_network(out) on host "tx"
    wire,   \* the storage bytes of out, in address order, as transmitted
    inp,    \* the value host "rx" reads from the received bytes
    res     \* from_network(inp) on host "rx"

vars == <<T, x, cfg, build, once, twice, out, back, wire, inp, res>>

(***************************************************************************)
(* Bounds and input sets                                                   *)
(***************************************************************************)

\* Number of byte values of ByteList every byte of an input ranges over.
NumByteVals == 2

\* 0x80, 0x01, 0xFF, 0x00, 0x7F, 0x12: sign bit alone, low bit alone, all ones, ...
ByteList == <<128, 1, 255, 0, 127, 18>>

ByteVals == {ByteList[i] : i \in 1..NumByteVals}

Hosts == {"tx", "rx"}

\* Marks a result that has not been computed (no value has zero bytes).
None == <<>>

RECURSIVE SeqsOver(_, _)
SeqsOver(S, n) ==
    IF n = 0 THEN {<<>>}
    ELSE {Append(s, b) : s \in SeqsOver(S, n - 1), b \in S}

Reverse(s) == [i \in 1..Len(s) |-> s[Len(s) + 1 - i]]

Max(a, b) == IF a >= b THEN a ELSE b

(***************************************************************************)
(* Bit operations on one byte                                              *)
(***************************************************************************)

\* Bitwise AND of two bytes: bit by bit, after the cases in which one
\* operand is all zeros or all ones.
BitAnd(a, b) ==
    IF a = 0 \/ b = 0 THEN 0
    ELSE IF a = 255 THEN b
    ELSE IF b = 255 THEN a
    ELSE  (a % 2) * (b % 2)
        + 2 * ((a \div 2) % 2) * ((b \div 2) % 2)
        + 4 * ((a \div 4) % 2) * ((b \div 4) % 2)
        + 8 * ((a \div 8) % 2) * ((b \div 8) % 2)
        + 16 * ((a \div 16) % 2) * ((b \div 16) % 2)
        + 32 * ((a \div 32) % 2) * ((b \div 32) % 2)
        + 64 * ((a \div 64) % 2) * ((b \div 64) % 2)
        + 128 * ((a \div 128) % 2) * ((b \div 128) % 2)

\* Bitwise OR of two bytes.
BitOr(a, b) ==
    IF a = 0 THEN b
    ELSE IF b = 0 THEN a
    ELSE a + b - BitAnd(a, b)

(***************************************************************************)
(* C++ integer expressions.  A value is [w: bytes, s: signed, b: pattern]. *)
(* c is the build configuration; c.int and c.long are sizeof(int) and      *)
(* sizeof(long) of its data model.                                         *)
(***************************************************************************)

CVal(w, s, b) == [w |-> w, s |-> s, b |-> b]

\* The byte that extends v beyond its width: the sign for a negative value.
Fill(v) == IF v.s /\ v.b[v.w] >= 128 THEN 255 ELSE 0

\* Integral conversion to a type of w bytes: extension by the source's
\* signedness, or truncation (modular; what every two's complement build does).
Convert(v, w, s) ==
    CVal(w, s, [i \in 1..w |-> IF i <= v.w THEN v.b[i] ELSE Fill(v)])

\* Integral promotion: a type narrower than int becomes int.
Promote(c, v) == IF v.w < c.int THEN Convert(v, c.int, TRUE) ELSE v

\* Usual arithmetic conversions of two promoted operands.
CommonW(a, b) == Max(a.w, b.w)
CommonS(a, b) ==
    IF a.w = b.w THEN a.s /\ b.s
    ELSE IF a.w > b.w THEN a.s ELSE b.s

And(c, a, b) ==
    LET pa == Promote(c, a)
        pb == Promote(c, b)
        w  == CommonW(pa, pb)
        s  == CommonS(pa, pb)
        ca == Convert(pa, w, s)
        cb == Convert(pb, w, s)
    IN  CVal(w, s, [i \in 1..w |-> BitAnd(ca.b[i], cb.b[i])])

Or(c, a, b) ==
    LET pa == Promote(c, a)
        pb == Promote(c, b)
        w  == CommonW(pa, pb)
        s  == CommonS(pa, pb)
        ca == Convert(pa, w, s)
        cb == Convert(pb, w, s)
    IN  CVal(w, s, [i \in 1..w |-> BitOr(ca.b[i], cb.b[i])])

\* val >> n for n a multiple of 8 (the only shift counts of the source), in
\* the promoted type of val; arithmetic for a signed val.
Shr(c, v, n) ==
    LET p == Promote(c, v)
        k == n \div 8
    IN  CVal(p.w, p.s, [i \in 1..p.w |-> IF i + k <= p.w THEN p.b[i + k] ELSE Fill(p)])

\* val << n for n a multiple of 8, in the promoted type of val; bits shifted
\* beyond the width are dropped (for a signed val: the two's complement
\* result GCC, Clang and MSVC produce and C++20 prescribes).
Shl(c, v, n) ==
    LET p == Promote(c, v)
        k == n \div 8
    IN  CVal(p.w, p.s, [i \in 1..p.w |-> IF i - k >= 1 THEN p.b[i - k] ELSE 0])

\* The types a hexadecimal literal with the given suffix can take, in order.
LitTypes(c, suffix) ==
    CASE suffix = ""    -> << <<c.int, TRUE>>, <<c.int, FALSE>>, <<c.long, TRUE>>,
                              <<c.long, FALSE>>, <<8, TRUE>>, <<8, FALSE>> >>
      [] suffix = "U"   -> << <<c.int, FALSE>>, <<c.long, FALSE>>, <<8, FALSE>> >>
      [] suffix = "L"   -> << <<c.long, TRUE>>, <<c.long, FALSE>>, <<8, TRUE>>, <<8, FALSE>> >>
      [] suffix = "UL"  -> << <<c.long, FALSE>>, <<8, FALSE>> >>
      [] suffix = "ULL" -> << <<8, FALSE>> >>

\* A literal whose bytes at the positions of S (1 = least significant) are
\* 0xFF and whose other bytes are 0x00: its type is the first of LitTypes
\* that can represent it.
Lit(c, suffix, S) ==
    LET top  == IF S = {} THEN 0 ELSE CHOOSE i \in S : \A j \in S : j <= i
        ts   == LitTypes(c, suffix)
        fits(t) == IF t[2] THEN top < t[1] ELSE top <= t[1]
        k    == CHOOSE i \in 1..Len(ts) : fits(ts[i]) /\ \A j \in 1..(i - 1) : ~fits(ts[j])
    IN  CVal(ts[k][1], ts[k][2], [i \in 1..ts[k][1] |-> IF i \in S THEN 255 ELSE 0])

(***************************************************************************)
(* The swap_bytes specializations.  Each takes the build configuration and *)
(* the bit pattern of val and returns the bit pattern of the result.       *)
(***************************************************************************)

\* swap_bytes< uint8, 1 >
swap_bytes_uint8(c, val) == val

\* swap_bytes< uint16, 2 >
swap_bytes_uint16(c, val) ==
    LET v  == CVal(2, FALSE, val)
        t1 == Convert(And(c, Shr(c, v, 8), Lit(c, "U", {1})), 2, FALSE)
        t2 == Convert(Or(c, t1, And(c, Shl(c, v, 8), Lit(c, "U", {1, 2}))), 2, FALSE)
    IN  t2.b

\* swap_bytes< sint16, 2 > with the mask of the right shift left out.
swap_bytes_sint16_nomask(c, val) ==
    LET v  == CVal(2, TRUE, val)
        t1 == Convert(Shr(c, v, 8), 2, TRUE)
        t2 == Convert(Or(c, t1, And(c, Shl(c, v, 8), Lit(c, "", {1, 2}))), 2, TRUE)
    IN  t2.b

\* swap_bytes< sint16, 2 >
swap_bytes_sint16(c, val) ==
    LET v  == CVal(2, TRUE, val)
        t1 == Convert(And(c, Shr(c, v, 8), Lit(c, "", {1})), 2, TRUE)
        t2 == Convert(Or(c, t1, And(c, Shl(c, v, 8), Lit(c, "", {1, 2}))), 2, TRUE)
    IN  t2.b

\* swap_bytes< uint32, 4 > with byte 2 shifted by 16 instead of 8.
swap_bytes_uint32_wrongshift(c, val) ==
    LET v  == CVal(4, FALSE, val)
        t1 == Convert(And(c, Shr(c, v, 24), Lit(c, "UL", {1})), 4, FALSE)
        t2 == Convert(Or(c, t1, And(c, Shl(c, v, 24), Lit(c, "UL", {4}))), 4, FALSE)
        t3 == Convert(Or(c, t2, And(c, Shr(c, v, 16), Lit(c, "UL", {2}))), 4, FALSE)
        t4 == Convert(Or(c, t3, And(c, Shl(c, v, 8), Lit(c, "UL", {3}))), 4, FALSE)
    IN  t4.b

\* swap_bytes< uint32, 4 >
swap_bytes_uint32(c, val) ==
    LET v  == CVal(4, FALSE, val)
        t1 == Convert(And(c, Shr(c, v, 24), Lit(c, "UL", {1})), 4, FALSE)
        t2 == Convert(Or(c, t1, And(c, Shl(c, v, 24), Lit(c, "UL", {4}))), 4, FALSE)
        t3 == Convert(Or(c, t2, And(c, Shr(c, v, 8), Lit(c, "UL", {2}))), 4, FALSE)
        t4 == Convert(Or(c, t3, And(c, Shl(c, v, 8), Lit(c, "UL", {3}))), 4, FALSE)
    IN  t4.b

\* swap_bytes< sint32, 4 > with the mask of (val >> 8) left out.
swap_bytes_sint32_nomask(c, val) ==
    LET v  == CVal(4, TRUE, val)
        t1 == Convert(And(c, Shr(c, v, 24), Lit(c, "L", {1})), 4, TRUE)
        t2 == Convert(Or(c, t1, And(c, Shl(c, v, 24), Lit(c, "L", {4}))), 4, TRUE)
        t3 == Convert(Or(c, t2, Shr(c, v, 8)), 4, TRUE)
        t4 == Convert(Or(c, t3, And(c, Shl(c, v, 8), Lit(c, "L", {3}))), 4, TRUE)
    IN  t4.b

\* swap_bytes< sint32, 4 >
swap_bytes_sint32(c, val) ==
    LET v  == CVal(4, TRUE, val)
        t1 == Convert(And(c, Shr(c, v, 24), Lit(c, "L", {1})), 4, TRUE)
        t2 == Convert(Or(c, t1, And(c, Shl(c, v, 24), Lit(c, "L", {4}))), 4, TRUE)
        t3 == Convert(Or(c, t2, And(c, Shr(c, v, 8), Lit(c, "L", {2}))), 4, TRUE)
        t4 == Convert(Or(c, t3, And(c, Shl(c, v, 8), Lit(c, "L", {3}))), 4, TRUE)
    IN  t4.b

\* swap_bytes< uint64, 8 >
swap_bytes_uint64(c, val) ==
    LET v  == CVal(8, FALSE, val)
        t1 == Convert(And(c, Shr(c, v, 56), Lit(c, "ULL", {1})), 8, FALSE)
        t2 == Convert(Or(c, t1, And(c, Shl(c, v, 56), Lit(c, "ULL", {8}))), 8, FALSE)
        t3 == Convert(Or(c, t2, And(c, Shr(c, v, 40), Lit(c, "ULL", {2}))), 8, FALSE)
        t4 == Convert(Or(c, t3, And(c, Shl(c, v, 40), Lit(c, "ULL", {7}))), 8, FALSE)
        t5 == Convert(Or(c, t4, And(c, Shr(c, v, 24), Lit(c, "ULL", {3}))), 8, FALSE)
        t6 == Convert(Or(c, t5, And(c, Shl(c, v, 24), Lit(c, "ULL", {6}))), 8, FALSE)
        t7 == Convert(Or(c, t6, And(c, Shr(c, v, 8), Lit(c, "ULL", {4}))), 8, FALSE)
        t8 == Convert(Or(c, t7, And(c, Shl(c, v, 8), Lit(c, "ULL", {5}))), 8, FALSE)
    IN  t8.b

\* swap_bytes< sint64, 8 >
swap_bytes_sint64(c, val) ==
    LET v  == CVal(8, TRUE, val)
        t1 == Convert(And(c, Shr(c, v, 56), Lit(c, "ULL", {1})), 8, TRUE)
        t2 == Convert(Or(c, t1, And(c, Shl(c, v, 56), Lit(c, "ULL", {8}))), 8, TRUE)
        t3 == Convert(Or(c, t2, And(c, Shr(c, v, 40), Lit(c, "ULL", {2}))), 8, TRUE)
        t4 == Convert(Or(c, t3, And(c, Shl(c, v, 40), Lit(c, "ULL", {7}))), 8, TRUE)
        t5 == Convert(Or(c, t4, And(c, Shr(c, v, 24), Lit(c, "ULL", {3}))), 8, TRUE)
        t6 == Convert(Or(c, t5, And(c, Shl(c, v, 24), Lit(c, "ULL", {6}))), 8, TRUE)
        t7 == Convert(Or(c, t6, And(c, Shr(c, v, 8), Lit(c, "ULL", {4}))), 8, TRUE)
        t8 == Convert(Or(c, t7, And(c, Shl(c, v, 8), Lit(c, "ULL", {5}))), 8, TRUE)
    IN  t8.b

(***************************************************************************)
(* Storage.  The bytes of an object in address order (element 1 at the     *)
(* lowest address) on a machine of the given byte order, and back.         *)
(***************************************************************************)

Store(p, machine) == IF machine = "little" THEN p ELSE Reverse(p)

Load(bytes, machine) == IF machine = "little" THEN bytes ELSE Reverse(bytes)

\* swap_bytes< float32, 4 >: to_convert[k] = float_to_convert[3 - k]
swap_bytes_float32(c, fval) ==
    LET temp             == fval
        float_to_convert == Store(temp, c.machine)
        to_convert       == << float_to_convert[4], float_to_convert[3],
                               float_to_convert[2], float_to_convert[1] >>
        float_swapped    == Load(to_convert, c.machine)
    IN  float_swapped

\* swap_bytes< float64, 8 > with to_convert[3] = float_to_convert[3].
swap_bytes_float64_wrongindex(c, fval) ==
    LET temp             == fval
        float_to_convert == Store(temp, c.machine)
        to_convert       == << float_to_convert[8], float_to_convert[7],
                               float_to_convert[6], float_to_convert[4],
                               float_to_convert[4], float_to_convert[3],
                               float_to_convert[2], float_to_convert[1] >>
        float_swapped    == Load(to_convert, c.machine)
    IN  float_swapped

\* swap_bytes< float64, 8 >: to_convert[k] = float_to_convert[7 - k]
swap_bytes_float64(c, fval) ==
    LET temp             == fval
        float_to_convert == Store(temp, c.machine)
        to_convert       == << float_to_convert[8], float_to_convert[7],
                               float_to_convert[6], float_to_convert[5],
                               float_to_convert[4], float_to_convert[3],
                               float_to_convert[2], float_to_convert[1] >>
        float_swapped    == Load(to_convert, c.machine)
    IN  float_swapped

\* The explicit specializations of the header: the pairs < T, Sz > for which
\* swap_bytes is defined.  The primary template is declared only.
Specializations ==
    { <<"uint8", 1>>, <<"uint16", 2>>, <<"sint16", 2>>, <<"uint32", 4>>,
      <<"sint32", 4>>, <<"uint64", 8>>, <<"sint64", 8>>, <<"float32", 4>>,
      <<"float64", 8>> }

HasSpecialization(t, sz) == <<t, sz>> \in Specializations

\* swap_bytes< T, Sz >(val): overload resolution over the specializations.
swap_bytes(c, t, sz, val) ==
    CASE <<t, sz>> = <<"uint8", 1>>   -> swap_bytes_uint8(c, val)
      [] <<t, sz>> = <<"uint16", 2>>  -> swap_bytes_uint16(c, val)
      [] <<t, sz>> = <<"sint16", 2>>  -> swap_bytes_sint16(c, val)
      [] <<t, sz>> = <<"uint32", 4>>  -> swap_bytes_uint32(c, val)
      [] <<t, sz>> = <<"sint32", 4>>  -> swap_bytes_sint32(c, val)
      [] <<t, sz>> = <<"uint64", 8>>  -> swap_bytes_uint64(c, val)
      [] <<t, sz>> = <<"sint64", 8>>  -> swap_bytes_sint64(c, val)
      [] <<t, sz>> = <<"float32", 4>> -> swap_bytes_float32(c, val)
      [] <<t, sz>> = <<"float64", 8>> -> swap_bytes_float64(c, val)

(***************************************************************************)
(* Types and inputs                                                        *)
(***************************************************************************)

\* The types of the specializations, and two types without one: a signed
\* byte and a three-byte aggregate.
Types ==
    { "uint8", "uint16", "sint16", "uint32", "sint32", "uint64", "sint64",
      "float32", "float64", "sint8", "uint8x3" }

\* sizeof(T)
Sizeof(t) ==
    CASE t \in {"uint8", "sint8"}               -> 1
      [] t \in {"uint16", "sint16"}             -> 2
      [] t = "uint8x3"                          -> 3
      [] t \in {"uint32", "sint32", "float32"}  -> 4
      [] t \in {"uint64", "sint64", "float64"}  -> 8

UnsignedTypes == {"uint8", "uint16", "uint32", "uint64"}
SignedTypes   == {"sint16", "sint32", "sint64"}
FloatTypes    == {"float32", "float64"}
IntegerTypes  == UnsignedTypes \cup SignedTypes

\* The unsigned type of the same width as a signed one.
UnsignedOf(t) ==
    CASE t = "sint16" -> "uint16"
      [] t = "sint32" -> "uint32"
      [] t = "sint64" -> "uint64"

Supported(t) == HasSpecialization(t, Sizeof(t))

Const(w, b) == [i \in 1..w |-> b]

\* Named values, least significant byte first.
KnownVectors(t) ==
    {Const(Sizeof(t), 0), Const(Sizeof(t), 255)} \cup
    CASE t \in {"uint8", "sint8"} -> { <<18>> }
      [] t = "uint16"  -> { <<52, 18>> }                       \* 0x1234
      [] t = "sint16"  -> { <<52, 18>>, <<254, 255>>,          \* 0x1234, -2
                            <<0, 128>> }                       \* -32768
      [] t = "uint8x3" -> { <<3, 2, 1>> }
      [] t = "uint32"  -> { <<120, 86, 52, 18>> }              \* 0x12345678
      [] t = "sint32"  -> { <<120, 86, 52, 18>>,
                            <<254, 255, 255, 255>>,            \* -2
                            <<0, 0, 0, 128>> }                 \* INT32_MIN
      [] t = "uint64"  -> { <<8, 7, 6, 5, 4, 3, 2, 1>> }       \* 0x0102030405060708
      [] t = "sint64"  -> { <<8, 7, 6, 5, 4, 3, 2, 1>>,
                            <<254, 255, 255, 255, 255, 255, 255, 255>>,
                            <<0, 0, 0, 0, 0, 0, 0, 128>> }
      [] t = "float32" -> { <<0, 0, 0, 128>>,                  \* -0.0
                            <<1, 0, 0, 0>>,                    \* least subnormal
                            <<0, 0, 128, 0>>,                  \* least normal
                            <<255, 255, 127, 127>>,            \* greatest finite
                            <<0, 0, 128, 63>>,                 \* 1.0
                            <<0, 0, 192, 127>>,                \* quiet NaN
                            <<69, 35, 161, 127>>,              \* signalling NaN 0x7FA12345
                            <<1, 0, 192, 255>> }               \* NaN 0xFFC00001
      [] t = "float64" -> { <<0, 0, 0, 0, 0, 0, 0, 128>>,
                            <<1, 0, 0, 0, 0, 0, 0, 0>>,
                            <<0, 0, 0, 0, 0, 0, 16, 0>>,
                            <<255, 255, 255, 255, 255, 255, 239, 127>>,
                            <<0, 0, 0, 0, 0, 0, 240, 63>>,
                            <<0, 0, 0, 0, 0, 0, 248, 127>>,
                            <<69, 35, 1, 0, 0, 0, 244, 127>>,
                            <<1, 0, 0, 0, 0, 0, 248, 255>> }

\* Every pattern over ByteVals, and the named values.
SwapInputs(t) == SeqsOver(ByteVals, Sizeof(t)) \cup KnownVectors(t)

\* One byte of ByteVals at one position over a background of 0x00 or 0xFF,
\* and the named values.
WireInputs(t) ==
    { [i \in 1..Sizeof(t) |-> IF i = k THEN b ELSE f] :
          k \in 1..Sizeof(t), b \in ByteVals, f \in {0, 255} }
    \cup KnownVectors(t)

(***************************************************************************)
(* Build configuration and the preprocessor                                *)
(***************************************************************************)

\* platform : which of __unix__ / _WIN32 the compiler predefines
\* machine  : the byte order of the target CPU
\* endian_h : what <endian.h> provides: "bsd" the names BYTE_ORDER,
\*            LITTLE_ENDIAN and BIG_ENDIAN; "internal" only reserved names
\*            such as __BYTE_ORDER; "absent" no such header
\* predef   : LITTLE_ENDIAN and BIG_ENDIAN are already defined by a header
\*            included earlier (_WIN32 branch)
\* int,long : sizeof(int), sizeof(long)
Configs ==
    { [platform |-> "unix", machine |-> m, endian_h |-> e, predef |-> FALSE,
       int |-> 4, long |-> l] :
          m \in {"little", "big"}, e \in {"bsd", "internal", "absent"}, l \in {4, 8} }
    \cup
    { [platform |-> "win32", machine |-> "little", endian_h |-> "absent",
       predef |-> d, int |-> 4, long |-> 4] : d \in BOOLEAN }
    \cup
    { [platform |-> "other", machine |-> m, endian_h |-> "absent", predef |-> FALSE,
       int |-> 4, long |-> l] : m \in {"little", "big"}, l \in {4, 8} }

NoConfig ==
    [platform |-> "none", machine |-> "none", endian_h |-> "absent",
     predef |-> FALSE, int |-> 0, long |-> 0]

\* A macro is undefined, or defined as a number or as another identifier.
Undef    == [kind |-> "undef", num |-> 0, id |-> ""]
Num(n)   == [kind |-> "num", num |-> n, id |-> ""]
Ident(i) == [kind |-> "ident", num |-> 0, id |-> i]

\* The platform branch stops the translation: #error, or #include of a
\* header that does not exist.
PreprocessError(c) ==
    \/ c.platform = "other"
    \/ c.platform = "unix" /\ c.endian_h = "absent"

\* The macros in effect after the platform branch.
Macros(c) ==
    CASE c.platform = "unix" /\ c.endian_h = "bsd" ->
            [BYTE_ORDER    |-> Num(IF c.machine = "little" THEN 1234 ELSE 4321),
             LITTLE_ENDIAN |-> Num(1234),
             BIG_ENDIAN    |-> Num(4321)]
      [] c.platform = "win32" ->
            [BYTE_ORDER    |-> Ident("LITTLE_ENDIAN"),
             LITTLE_ENDIAN |-> IF c.predef THEN Num(1234) ELSE Undef,
             BIG_ENDIAN    |-> IF c.predef THEN Num(4321) ELSE Undef]
      [] OTHER ->
            [BYTE_ORDER |-> Undef, LITTLE_ENDIAN |-> Undef, BIG_ENDIAN |-> Undef]

Defined(c, name) == Macros(c)[name].kind # "undef"

\* The value of a token in an #if expression: macros are replaced, and an
\* identifier that is left is replaced by 0.
RECURSIVE Expand(_, _)
Expand(m, tok) ==
    CASE tok.kind = "num"   -> tok.num
      [] tok.kind = "undef" -> 0
      [] tok.kind = "ident" ->
            IF tok.id \in DOMAIN m /\ m[tok.id].kind # "undef"
            THEN Expand(m, m[tok.id])
            ELSE 0

IfValue(c, name) == Expand(Macros(c), Ident(name))

\* #if ( BYTE_ORDER == LITTLE_ENDIAN )
ByteOrderIsLittle(c) == IfValue(c, "BYTE_ORDER") = IfValue(c, "LITTLE_ENDIAN")

\* The host byte order the build is configured for: the macros resolve
\* BYTE_ORDER to LITTLE_ENDIAN or to BIG_ENDIAN, or the _WIN32 branch states
\* little-endian; otherwise nothing determines it.
HostOrderFact(c) ==
    IF PreprocessError(c) THEN "undetermined"
    ELSE IF c.platform = "win32" THEN "little"
    ELSE IF Defined(c, "BYTE_ORDER") /\ Defined(c, "LITTLE_ENDIAN")
            /\ IfValue(c, "BYTE_ORDER") = IfValue(c, "LITTLE_ENDIAN") THEN "little"
    ELSE IF Defined(c, "BYTE_ORDER") /\ Defined(c, "BIG_ENDIAN")
            /\ IfValue(c, "BYTE_ORDER") = IfValue(c, "BIG_ENDIAN") THEN "big"
    ELSE "undetermined"

\* The configurations in which the host byte order cannot be determined:
\* neither platform macro is defined, or BYTE_ORDER is left undefined after
\* the platform branch.
Undetermined(c) ==
    \/ c.platform \notin {"unix", "win32"}
    \/ ~Defined(c, "BYTE_ORDER")

(***************************************************************************)
(* The wrappers                                                            *)
(***************************************************************************)

\* to_network without the conditional swap.
to_network_noswap(c, t, value) == value

to_network(c, t, value) ==
    LET convert == value
    IN  IF ByteOrderIsLittle(c)
        THEN swap_bytes(c, t, Sizeof(t), value)
        ELSE convert

\* from_network without the conditional swap.
from_network_noswap(c, t, value) == value

\* from_network swapping on the opposite condition.
from_network_inverted(c, t, value) ==
    LET convert == value
    IN  IF ~ByteOrderIsLittle(c)
        THEN swap_bytes(c, t, Sizeof(t), value)
        ELSE convert

from_network(c, t, value) ==
    LET convert == value
    IN  IF ByteOrderIsLittle(c)
        THEN swap_bytes(c, t, Sizeof(t), value)
        ELSE convert

\* The outcome of building a program that uses the wrappers for type t: the
\* call of an undefined swap_bytes< T, sizeof(T) > does not link.
WrapperBuild(c, t) ==
    IF PreprocessError(c) THEN "preprocess_error"
    ELSE IF ByteOrderIsLittle(c) /\ ~HasSpecialization(t, Sizeof(t)) THEN "link_error"
    ELSE "ok"

\* The outcome of building a program that calls swap_bytes< T, sizeof(T) >.
SwapBuild(c, t) ==
    IF PreprocessError(c) THEN "preprocess_error"
    ELSE IF ~HasSpecialization(t, Sizeof(t)) THEN "link_error"
    ELSE "ok"

(***************************************************************************)
(* Two hosts: "tx" encodes x and sends the bytes, "rx" decodes them        *)
(***************************************************************************)

\* The builds of the two hosts: every platform branch, every <endian.h>,
\* both machine byte orders; LP64 on unix and LLP64 on _WIN32.
WireConfigs == {c \in Configs : c.platform = "win32" \/ c.long = 8}

Init ==
    /\ T \in Types
    /\ x \in WireInputs(T)
    /\ cfg = [h \in Hosts |-> NoConfig]
    /\ build = [h \in Hosts |-> "pending"]
    /\ once = None /\ twice = None
    /\ out = None /\ back = None /\ wire = None /\ inp = None /\ res = None

\* The sending host is configured and its program is built.
BuildTx ==
    /\ build["tx"] = "pending"
    /\ \E c \in WireConfigs :
          /\ cfg' = [cfg EXCEPT !["tx"] = c]
          /\ build' = [build EXCEPT !["tx"] = WrapperBuild(c, T)]
    /\ UNCHANGED <<T, x, once, twice, out, back, wire, inp, res>>

ToNetwork ==
    /\ build["tx"] = "ok" /\ out = None
    /\ out' = to_network(cfg["tx"], T, x)
    /\ UNCHANGED <<T, x, cfg, build, once, twice, back, wire, inp, res>>

\* The sender decodes its own encoding.
Loopback ==
    /\ out # None /\ back = None
    /\ back' = from_network(cfg["tx"], T, out)
    /\ UNCHANGED <<T, x, cfg, build, once, twice, out, wire, inp, res>>

\* The object holding to_network(x) is written out byte by byte.
Send ==
    /\ back # None /\ wire = None
    /\ wire' = Store(out, cfg["tx"].machine)
    /\ UNCHANGED <<T, x, cfg, build, once, twice, out, back, inp, res>>

\* The receiving host is configured and its program is built.
BuildRx ==
    /\ wire # None /\ build["rx"] = "pending"
    /\ \E c \in WireConfigs :
          /\ cfg' = [cfg EXCEPT !["rx"] = c]
          /\ build' = [build EXCEPT !["rx"] = WrapperBuild(c, T)]
    /\ UNCHANGED <<T, x, once, twice, out, back, wire, inp, res>>

\* The received bytes are read as an object of type T.
Receive ==
    /\ build["rx"] = "ok" /\ inp = None
    /\ inp' = Load(wire, cfg["rx"].machine)
    /\ UNCHANGED <<T, x, cfg, build, once, twice, out, back, wire, res>>

FromNetwork ==
    /\ inp # None /\ res = None
    /\ res' = from_network(cfg["rx"], T, inp)
    /\ UNCHANGED <<T, x, cfg, build, once, twice, out, back, wire, inp>>

Next ==
    \/ BuildTx
    \/ ToNetwork
    \/ Loopback
    \/ Send
    \/ BuildRx
    \/ Receive
    \/ FromNetwork

Spec == Init /\ [][Next]_vars

(***************************************************************************)
(* One host calling swap_bytes directly, twice                             *)
(***************************************************************************)

SwapConfigs == {c \in Configs : c.platform = "unix" /\ c.endian_h = "bsd"}

InitSwap ==
    /\ T \in Types
    /\ x \in SwapInputs(T)
    /\ \E c \in SwapConfigs : cfg = [h \in Hosts |-> IF h = "tx" THEN c ELSE NoConfig]
    /\ build = [h \in Hosts |-> "pending"]
    /\ once = None /\ twice = None
    /\ out = None /\ back = None /\ wire = None /\ inp = None /\ res = None

BuildSwap ==
    /\ build["tx"] = "pending"
    /\ build' = [build EXCEPT !["tx"] = SwapBuild(cfg["tx"], T)]
    /\ UNCHANGED <<T, x, cfg, once, twice, out, back, wire, inp, res>>

SwapOnce ==
    /\ build["tx"] = "ok" /\ once = None
    /\ once' = swap_bytes(cfg["tx"], T, Sizeof(T), x)
    /\ UNCHANGED <<T, x, cfg, build, twice, out, back, wire, inp, res>>

SwapTwice ==
    /\ once # None /\ twice = None
    /\ twice' = swap_bytes(cfg["tx"], T, Sizeof(T), once)
    /\ UNCHANGED <<T, x, cfg, build, once, out, back, wire, inp, res>>

NextSwap ==
    \/ BuildSwap
    \/ SwapOnce
    \/ SwapTwice

SpecSwap == InitSwap /\ [][NextSwap]_vars

(***************************************************************************)
(* Properties of swap_bytes (checked under SpecSwap)                       *)
(***************************************************************************)

\* C1: for every integer specialization and every bit pattern x of its
\* width, swap_bytes(swap_bytes(x)) = x.
C1_Involution ==
    (T \in IntegerTypes /\ twice # None) => twice = x

C1_Witness ==
    /\ T = "sint16" /\ x = <<254, 255>>
    /\ once = <<255, 254>> /\ twice = x

\* C5: for an unsigned value of width w, the byte of the result at position
\* w-1-i is the byte of x at position i and nothing else is set; a 1-byte
\* value is unchanged; 0x1234 gives 0x3412, 0x12345678 gives 0x78563412 and
\* 0x0102030405060708 gives 0x0807060504030201.
C5_ByteReversal ==
    (T \in UnsignedTypes /\ once # None) =>
        /\ Len(once) = Sizeof(T)
        /\ \A i \in 0..(Sizeof(T) - 1) : once[(Sizeof(T) - 1 - i) + 1] = x[i + 1]
        /\ T = "uint8" => once = x
        /\ (T = "uint16" /\ x = <<52, 18>>) => once = <<18, 52>>
        /\ (T = "uint32" /\ x = <<120, 86, 52, 18>>) => once = <<18, 52, 86, 120>>
        /\ (T = "uint64" /\ x = <<8, 7, 6, 5, 4, 3, 2, 1>>)
              => once = <<1, 2, 3, 4, 5, 6, 7, 8>>

C5_Witness ==
    /\ T = "uint64" /\ x = <<8, 7, 6, 5, 4, 3, 2, 1>>
    /\ once = <<1, 2, 3, 4, 5, 6, 7, 8>>

\* C6: for every signed value of 2, 4 or 8 bytes, negative ones included, the
\* bit pattern of the signed swap_bytes result is that of the unsigned
\* swap_bytes on the same bit pattern; -1 gives -1 and -2 gives 0xFEFF.
C6_SignedAsUnsigned ==
    (T \in SignedTypes /\ once # None) =>
        /\ once = swap_bytes(cfg["tx"], UnsignedOf(T), Sizeof(T), x)
        /\ (T = "sint16" /\ x = <<255, 255>>) => once = <<255, 255>>
        /\ (T = "sint16" /\ x = <<254, 255>>) => once = <<255, 254>>

C6_Witness ==
    /\ T = "sint64" /\ x = <<1, 1, 1, 1, 1, 1, 1, 128>>
    /\ once = <<128, 1, 1, 1, 1, 1, 1, 1>>

\* C7: for every 4-byte and 8-byte floating-point bit pattern, swap_bytes
\* reverses the storage bytes (output byte k is input byte width-1-k) and
\* swapping twice gives back the identical bit pattern.
C7_FloatReversal ==
    (T \in FloatTypes /\ once # None) =>
        /\ \A k \in 0..(Sizeof(T) - 1) :
              Store(once, cfg["tx"].machine)[k + 1]
                  = Store(x, cfg["tx"].machine)[(Sizeof(T) - 1 - k) + 1]
        /\ twice # None => twice = x

C7_Witness ==
    /\ T = "float32" /\ x = <<69, 35, 161, 127>>
    /\ once = <<127, 161, 35, 69>> /\ twice = x

(***************************************************************************)
(* Properties of the wrappers and of the build (checked under Spec)        *)
(***************************************************************************)

\* C2: for every supported type and value, from_network(to_network(x)) = x
\* on one build, whichever host byte order it is configured for.
C2_RoundTrip ==
    (Supported(T) /\ back # None) => back = x

C2_Witness ==
    /\ T = "uint32" /\ x = <<120, 86, 52, 18>>
    /\ HostOrderFact(cfg["tx"]) = "little"
    /\ out = <<18, 52, 86, 120>> /\ back = x

\* C3: a value encoded with to_network on a build whose host order is
\* little-endian and decoded with from_network on a build whose host order
\* is big-endian is the original value.
C3_CrossHost ==
    ( /\ Supported(T) /\ res # None
      /\ HostOrderFact(cfg["tx"]) = "little"
      /\ HostOrderFact(cfg["rx"]) = "big" ) => res = x

C3_Witness ==
    /\ T = "uint16" /\ x = <<52, 18>>
    /\ HostOrderFact(cfg["tx"]) = "little"
    /\ HostOrderFact(cfg["rx"]) = "big"
    /\ wire = <<18, 52>> /\ res = x

\* C4: the bytes in memory of to_network(x) are the same on a little-endian
\* and on a big-endian host: the most-significant-byte-first encoding of x.
C4_WireIsBigEndian ==
    (Supported(T) /\ wire # None) => wire = Reverse(x)

\* C8: to_network and from_network compute the same function: x unchanged
\* when the configured host byte order is big-endian, otherwise
\* swap_bytes< T, sizeof(T) >(x) applied once.
C8_SameFunction ==
    LET F(c, v) == IF HostOrderFact(c) = "big" THEN v
                   ELSE swap_bytes(c, T, Sizeof(T), v)
    IN  /\ (Supported(T) /\ out # None) =>
              /\ out = F(cfg["tx"], x)
              /\ from_network(cfg["tx"], T, x) = out
        /\ (Supported(T) /\ back # None) => back = F(cfg["tx"], out)
        /\ (Supported(T) /\ res # None) =>
              /\ res = F(cfg["rx"], inp)
              /\ to_network(cfg["rx"], T, inp) = res

C8_Witness ==
    /\ T = "uint32" /\ x = <<120, 86, 52, 18>>
    /\ HostOrderFact(cfg["tx"]) = "big" /\ out = x /\ back = x
    /\ HostOrderFact(cfg["rx"]) = "little"
    /\ inp = <<18, 52, 86, 120>> /\ res = x

\* C9: in every configuration in which the host byte order cannot be
\* determined (neither platform macro, or BYTE_ORDER left undefined after the
\* platform branch) the build fails; none reaches the wrappers with a swap
\* or no-swap chosen without a defined BYTE_ORDER.
C9_UndeterminedFails ==
    \A h \in Hosts :
        (build[h] # "pending" /\ Undetermined(cfg[h])) => build[h] # "ok"

\* C10: a conversion for a type without a swap_bytes specialization, or of
\* a width outside {1, 2, 4, 8}, is rejected at build time under every
\* host-order configuration and never returns a value.
C10_UnsupportedRejected ==
    ~Supported(T) =>
        /\ \A h \in Hosts : build[h] # "ok"
        /\ out = None /\ back = None /\ res = None

====
